---- MODULE Spec2Model ----
(***************************************************************************)
(* vibeplayer: the orchestration loop of run_app (src/src/main.rs), the    *)
(* Session State of src/src/app.rs, the agent tools and background         *)
(* retrievals of src/src/agent.rs, the Playback Controller of              *)
(* src/src/player.rs and the library index of src/src/library.rs.          *)
(*                                                                         *)
(* Every step that runs under one acquisition of the Session State lock is *)
(* one action.  The Playback Controller is touched by the orchestration    *)
(* loop's thread only, so a controller call is part of the action of the   *)
(* lock section next to it.                                                *)
(***************************************************************************)
EXTENDS Integers, Sequences, FiniteSets, Bags, TLC

\* ---------------------------------------------------------------- bounds
Urls == {"u1", "u2"}
MaxObjects == 2      \* queue entries and retrievals created in a run
MaxCmds == 2         \* Commands enqueued in a run of SpecCmd
MaxQueueCmds == 1    \* Commands enqueued in a run of Spec and SpecUI
MaxPlayUrls == 1     \* retrievals created in a run of SpecCmd
MaxTime == 1         \* wall-clock instants 0..MaxTime
RequestedLevels == {40, 300}

\* stand-ins for FLUSH_INTERVAL (512), FFT_SIZE (2048), MAX_BUFFER_SAMPLES
\* (16384) and the 20 entries of bass_history, in the same order of size
FlushInterval == 2
FftSize == 2
MaxBufferSamples == 3
BassHistoryLen == 2
MaxPulls == 8          \* samples pulled in a run
MaxAnalyses == 4       \* calls of get_audio_features in a run
MaxAudioTime == 3      \* ticks of the clock in a run of the audio path
MaxFileEntries == 2    \* records in the index file at startup
BassLevels == {0, 20, 80}   \* bass energies a window can have (hundredths)

\* the clock counts tenths of a second
BeatCooldown == 2            \* Duration::from_millis(200)
BeatInitialOffset == 10      \* Duration::from_secs(1)
BeatFloor == 15              \* bass > 0.15   \* "level" inputs of the set_volume tool

\* ------------------------------------------------------- program constants
DefaultVolume == 70
U8Modulus == 256

VARIABLES
    queue,             \* AppState.queue: Seq of Song
    library,           \* AppState.library: Seq of Song (library panel)
    current,           \* AppState.current: <<>> (None) or <<NowPlaying>>
    paused,            \* AppState.paused
    volume,            \* AppState.volume
    pending_commands,  \* AppState.pending_commands
    status_message,    \* AppState.status_message
    focused_panel,     \* AppState.focused_panel
    library_cursor,    \* AppState.library_cursor
    queue_cursor,      \* AppState.queue_cursor
    lib,               \* Library.entries (the persistent index)
    sink,              \* Player.sink: [empty, paused, volume]; live is a ghost:
                       \* the pipelines that hold a source and were not stopped
    pc,                \* position of run_app's loop
    commands,          \* run_app's local batch drained this tick
    tasks,             \* background retrievals in flight (a bag)
    now,               \* wall clock
    created,           \* ghost: queue entries and retrievals created
    failed,            \* ghost: a retrieval for the queue has failed
    enqCount,          \* ghost: Commands enqueued so far
    appliedCount,      \* ghost: Commands applied so far
    tickApplied,       \* ghost: <<type, outcome, seq>> of each Command applied this tick
    tickAdvance,       \* ghost: what auto-advance did this tick
    tickKey,           \* ghost: the input handler that ran this tick
    orphaned,          \* ghost: a retrieval completed with no entry to update
    limits,            \* the bounds of the run: [cmds, objects, time, pulls,
                       \* analyses], never changed
    audio,             \* Player.analyzer with its Shared Sample Buffer and the
                       \* AnalyzingSource of the sink, and ghosts (see NoAudio)
    threads,           \* per thread: the rest of the lock section it runs and
                       \* the locks it holds
    probe,             \* ghost: the last call of a function under test, as
                       \* <<[record of its arguments and result]>>
    agent_status,      \* AppState.agent_status
    requests           \* per agent request: where its handle_input task is
                       \* and the tool calls it has left

vars == <<queue, library, current, paused, volume, pending_commands,
          status_message, focused_panel, library_cursor, queue_cursor, lib,
          sink, pc, commands, tasks, now, created, failed, enqCount,
          appliedCount, tickApplied, tickAdvance, tickKey, orphaned, limits,
          audio, threads, probe, agent_status, requests>>

\* AppState: what the Session State lock guards
sessionVars == <<queue, library, current, paused, volume, pending_commands,
                 status_message, focused_panel, library_cursor, queue_cursor>>

\* ------------------------------------------------------------ data model
NoPath == "none"          \* Option<PathBuf>::None
NoDuration == -1          \* Option<Duration>::None
NoMessage == "none"       \* Option<String>::None

SongStatus == {"Queued", "Downloading", "Ready", "Playing", "Played"}

Rank(status) ==
    CASE status = "Queued" -> 0
      [] status = "Downloading" -> 1
      [] status = "Ready" -> 2
      [] status = "Playing" -> 3
      [] status = "Played" -> 4

\* what the external collaborators return for a source identifier
ResultTitle(url) == "result:" \o url       \* SearchResult.title
MetaTitle(url) == "title:" \o url          \* SongMeta.title
MetaArtist(url) == "artist:" \o url        \* SongMeta.artist
MetaDuration(url) == IF url = "u1" THEN 180 ELSE 240
VideoId(url) == "vid:" \o url              \* SongMeta.video_id
CachePath(video_id) == video_id \o ".mp3"  \* cache_dir.join("{video_id}.mp3")

Song_new_queued(title, artist, url) ==
    [title |-> title, artist |-> artist, url |-> url,
     file_path |-> NoPath, status |-> "Queued", duration |-> NoDuration]

\* a NowPlaying whose start instant is the start of the run
NewNowPlayingAtEpoch(song) ==
    [song |-> song, started_at |-> 0, paused_elapsed |-> 0, paused_at |-> -1]

NewNowPlaying(song) ==
    [song |-> song, started_at |-> now, paused_elapsed |-> 0, paused_at |-> -1]

\* NowPlaying::elapsed at wall-clock instant t
Elapsed(np, t) ==
    IF np.paused_at # -1
    THEN np.paused_elapsed + (np.paused_at - np.started_at) - np.paused_elapsed
    ELSE (t - np.started_at) - np.paused_elapsed

\* ---------------------------------------------------------------- helpers
RemoveAt(s, i) == [j \in 1..(Len(s) - 1) |-> IF j < i THEN s[j] ELSE s[j + 1]]

Min(a, b) == IF a < b THEN a ELSE b

\* Iterator::position / find: least index satisfying P, 0 when there is none
FirstIndex(s, P(_)) ==
    IF \E i \in 1..Len(s) : P(s[i])
    THEN CHOOSE i \in 1..Len(s) : P(s[i]) /\ \A j \in 1..(i - 1) : ~P(s[j])
    ELSE 0

\* AppState::clamp_cursors, as the pair of cursors for the given collections
ClampCursor(cursor, coll) ==
    IF Len(coll) = 0 THEN 0 ELSE Min(cursor, Len(coll) - 1)

\* ------------------------------------------------------------ Command Queue
\* Vec::push of a PlayerCommand under the Session State lock; seq is a ghost
\* field: the position of the Command in the order of enqueueing
Enqueue(cmd) ==
    /\ enqCount < limits.cmds
    /\ pending_commands' = Append(pending_commands, cmd @@ [seq |-> enqCount + 1])
    /\ enqCount' = enqCount + 1

\* pending_commands.drain(..).collect(): the batch taken and what is left
DrainAll(pending) == [batch |-> pending, rest |-> <<>>]

\* a loop that takes the Commands of a batch from the back
NextCommandFromBack(batch) ==
    [cmd |-> batch[Len(batch)], rest |-> SubSeq(batch, 1, Len(batch) - 1)]

\* `for cmd in commands`: the Command applied next and the rest of the batch
NextCommand(batch) == [cmd |-> Head(batch), rest |-> Tail(batch)]

\* -------------------------------------------------------- Playback Controller
PlayOutcomes == {"ok", "no_sink", "no_file"}

\* a stop that leaves the stream playing
Player_stop_ignored(s) == s

\* Player::stop
Player_stop(s) ==
    [s EXCEPT !.empty = TRUE, !.live = IF s.empty THEN @ ELSE @ - 1]

\* a new_sink that replaces the sink without stopping the old one, which
\* goes on playing
Player_new_sink_keeps_old(s, outcome) ==
    IF outcome = "no_sink"
    THEN s
    ELSE [empty |-> TRUE, paused |-> FALSE, volume |-> 100, live |-> s.live]

\* Player::new_sink: the old sink is stopped; Sink::try_new gives an empty,
\* unpaused sink at full gain, or fails and the stopped sink stays
Player_new_sink(s, outcome) ==
    IF outcome = "no_sink"
    THEN Player_stop(s)
    ELSE [empty |-> TRUE, paused |-> FALSE, volume |-> 100,
          live |-> Player_stop(s).live]

\* Player::play_file: the sink after the call; the call returns Ok exactly
\* when outcome = "ok"
Player_play_file(s, outcome) ==
    IF outcome = "ok"
    THEN [Player_new_sink(s, outcome) EXCEPT !.empty = FALSE, !.live = @ + 1]
    ELSE Player_new_sink(s, outcome)

\* a pause that toggles
Player_pause_toggles(s) == [s EXCEPT !.paused = ~@]

Player_pause(s) == [s EXCEPT !.paused = TRUE]
Player_resume(s) == [s EXCEPT !.paused = FALSE]
Player_set_volume(s, level) == [s EXCEPT !.volume = level]
Player_is_empty(s) == s.empty

\* ------------------------------------------------- Sample Relay and Analyzer
\* Samples are numbers: the n-th sample a source yields is 2n, so that the
\* mean of a stereo pair is a whole number and every sample tells its place
\* in the stream.  Band energies are in hundredths.
DefaultFeatures == [bass |-> 0, is_beat |-> FALSE]   \* AudioFeatures::default

\* Player::new and AppState::new: no analyzer, the default snapshot.
\* Ghosts: pulled (samples pulled so far), pushed (what went into the buffer
\* since it was created or cleared), analyses (calls of get_audio_features),
\* polled (a call was made this tick), last_op, beat_at and beat_gap (the
\* instant of the last beat flag and its distance from the one before), win
\* and win_bass (the last window analysed and its bass energy), seeked
\* ("no", or "live" / "idle": the last seek since play_file found a sound in
\* the sink or none) and post_seek (mono samples flushed since that seek)
NoAudio ==
    [analyzer |-> FALSE, buffer |-> <<>>, local_batch |-> <<>>,
     channels |-> 0, bass_history |-> <<>>, last_beat |-> 0,
     features |-> DefaultFeatures,
     pulled |-> 0, pushed |-> <<>>, analyses |-> 0, polled |-> FALSE,
     last_op |-> "new", beat_at |-> <<>>, beat_gap |-> <<>>,
     win |-> <<>>, win_bass |-> 0, seeked |-> "no", post_seek |-> 0]

\* source.channels() of the decoded file: u1 is a stereo file, u2 a mono one
ChannelsOf(path) == IF path = CachePath(VideoId("u1")) THEN 2 ELSE 1

\* Player::stop, and the end of the stream: the sink drops the
\* AnalyzingSource with its local batch; analyzer and buffer stay
Player_stop_relay(a) == [a EXCEPT !.local_batch = <<>>]

\* AudioAnalyzer::new for a new buffer
AudioAnalyzer_new(a, t) ==
    [a EXCEPT !.analyzer = TRUE, !.buffer = <<>>, !.pushed = <<>>,
              !.bass_history = <<>>, !.last_beat = t - BeatInitialOffset,
              !.win = <<>>, !.win_bass = 0, !.seeked = "no", !.post_seek = 0]

\* Player::play_file, the analyzer side: new_sink stops the old pipeline
\* first; only a file that opened and decoded gets a new buffer, a relay
\* and a new analyzer
Player_play_file_analyzer(a, path, outcome, t) ==
    IF outcome = "ok"
    THEN [AudioAnalyzer_new(Player_stop_relay(a), t) EXCEPT
              !.channels = ChannelsOf(path), !.last_op = "play"]
    ELSE Player_stop_relay(a)

\* flush's mix: chunks(2) averaged, a lone last sample kept as it is
RECURSIVE MonoMix(_)
MonoMix(batch) ==
    IF batch = <<>> THEN <<>>
    ELSE IF Len(batch) = 1 THEN batch
    ELSE <<(batch[1] + batch[2]) \div 2>>
             \o MonoMix(SubSeq(batch, 3, Len(batch)))

\* a trim that drops the newest samples instead of the oldest
TrimNewest(buf) ==
    IF Len(buf) > MaxBufferSamples THEN SubSeq(buf, 1, MaxBufferSamples)
    ELSE buf

\* flush's `while buf.len() > MAX_BUFFER_SAMPLES { buf.pop_front(); }`
Trim(buf) ==
    IF Len(buf) > MaxBufferSamples
    THEN SubSeq(buf, Len(buf) - MaxBufferSamples + 1, Len(buf))
    ELSE buf

\* a flush that pushes the batch as it is, whatever the channel count
FlushUnmixed(a) ==
    IF a.local_batch = <<>> THEN a
    ELSE [a EXCEPT !.buffer = Trim(@ \o a.local_batch),
                   !.pushed = @ \o a.local_batch,
                   !.local_batch = <<>>,
                   !.post_seek = IF a.seeked = "no" THEN 0
                                 ELSE @ + Len(a.local_batch)]

\* AnalyzingSource::flush
Flush(a) ==
    IF a.local_batch = <<>> THEN a
    ELSE LET mono == IF a.channels = 2 THEN MonoMix(a.local_batch)
                     ELSE a.local_batch
         IN [a EXCEPT !.buffer = Trim(@ \o mono), !.pushed = @ \o mono,
                      !.local_batch = <<>>,
                      !.post_seek = IF a.seeked = "no" THEN 0
                                    ELSE @ + Len(mono)]

\* AnalyzingSource::next when the inner source yields a sample
Relay_next(a) ==
    LET a1 == [a EXCEPT !.local_batch = Append(@, 2 * (a.pulled + 1)),
                        !.pulled = @ + 1, !.last_op = "pull"]
    IN IF Len(a1.local_batch) >= FlushInterval THEN Flush(a1) ELSE a1

\* a try_seek that clears the local batch and leaves the shared buffer
Relay_try_seek_keeps_buffer(a) ==
    [a EXCEPT !.local_batch = <<>>, !.last_op = "seek", !.seeked = "live",
              !.post_seek = 0]

\* AnalyzingSource::try_seek: both are cleared before the inner seek runs
Relay_try_seek(a) ==
    [a EXCEPT !.local_batch = <<>>, !.buffer = <<>>, !.pushed = <<>>,
              !.last_op = "seek", !.seeked = "live", !.post_seek = 0]

\* Player::seek is Sink::try_seek: with no sound in the sink no seek is
\* performed, else the order reaches the AnalyzingSource on the audio thread
Player_seek(a, s) ==
    IF Player_is_empty(s)
    THEN [a EXCEPT !.last_op = "seek_idle", !.seeked = "idle", !.post_seek = 0]
    ELSE Relay_try_seek(a)

\* the most recent FFT_SIZE samples
Window(buf) == SubSeq(buf, Len(buf) - FftSize + 1, Len(buf))

RECURSIVE SeqSum(_)
SeqSum(s) == IF s = <<>> THEN 0 ELSE Head(s) + SeqSum(Tail(s))

\* an analyze that records the bass energy whatever the buffer holds
AnalyzeUnguarded(a, bass, t) ==
    [a EXCEPT !.bass_history = Append(@, bass),
              !.features = [bass |-> bass, is_beat |-> FALSE]]

\* an analyze that compares the bass with the mean of the values before it
AnalyzeMeanOfPast(a, bass, t) ==
    IF Len(a.buffer) < FftSize
    THEN [a EXCEPT !.features = DefaultFeatures]
    ELSE LET pushedBass == Append(a.bass_history, bass)
             history == IF Len(pushedBass) > BassHistoryLen
                        THEN Tail(pushedBass) ELSE pushedBass
             past == a.bass_history
             is_beat == /\ 2 * bass * Len(past) > 3 * SeqSum(past)
                           \/ (past = <<>> /\ bass > 0)
                        /\ bass > BeatFloor
                        /\ t - a.last_beat > BeatCooldown
         IN [a EXCEPT !.bass_history = history,
                      !.last_beat = IF is_beat THEN t ELSE @,
                      !.features = [bass |-> bass, is_beat |-> is_beat],
                      !.win = Window(a.buffer), !.win_bass = bass,
                      !.beat_at = IF is_beat THEN <<t>> ELSE @,
                      !.beat_gap = IF is_beat /\ a.beat_at # <<>>
                                   THEN <<t - a.beat_at[1]>> ELSE @]

\* AudioAnalyzer::analyze, bass being the energy of the window's low band:
\* bass > avg * 1.5 is 2 * bass * len > 3 * sum
Analyze(a, bass, t) ==
    IF Len(a.buffer) < FftSize
    THEN [a EXCEPT !.features = DefaultFeatures]
    ELSE LET pushedBass == Append(a.bass_history, bass)
             history == IF Len(pushedBass) > BassHistoryLen
                        THEN Tail(pushedBass) ELSE pushedBass
             is_beat == /\ 2 * bass * Len(history) > 3 * SeqSum(history)
                        /\ bass > BeatFloor
                        /\ t - a.last_beat > BeatCooldown
         IN [a EXCEPT !.bass_history = history,
                      !.last_beat = IF is_beat THEN t ELSE @,
                      !.features = [bass |-> bass, is_beat |-> is_beat],
                      !.win = Window(a.buffer), !.win_bass = bass,
                      !.beat_at = IF is_beat THEN <<t>> ELSE @,
                      !.beat_gap = IF is_beat /\ a.beat_at # <<>>
                                   THEN <<t - a.beat_at[1]>> ELSE @]

\* Player::get_audio_features
Player_get_audio_features(a, bass, t) ==
    LET r == IF a.analyzer THEN Analyze(a, bass, t)
             ELSE [a EXCEPT !.features = DefaultFeatures]
    IN [r EXCEPT !.analyses = @ + 1, !.polled = TRUE, !.last_op = "analyze"]

\* ---------------------------------------------------------- locks and I/O
\* The lock sections of the source, each as the steps its thread takes:
\* <<"lock", l>> and <<"unlock", l>> for a MutexGuard taken and dropped,
\* <<"io", what>> for a call that does I/O, <<"call", what>> for a call of
\* the Player that does none.
Threads == {"loop", "audio", "agent", "task"}
Locks == {"state", "library", "buffer"}
Idle == [script |-> <<>>, held |-> {}]

Section(l) == << <<"lock", l>>, <<"unlock", l>> >>

\* main.rs 94-108: the panel is restored with the library guard taken
\* first and the Session State guard inside it
RestoreScript ==
    << <<"lock", "library">>, <<"lock", "state">>, <<"io", "exists">>,
       <<"unlock", "state">>, <<"unlock", "library">> >>
\* main.rs 120-126 and 129-134: visualizer and playback position
RefreshScript == Section("state")
\* main.rs 136-140: terminal.draw inside the guard's block
DrawScript == << <<"lock", "state">>, <<"io", "draw">>, <<"unlock", "state">> >>
\* main.rs 143-147
DrainScript == Section("state")
\* main.rs 155-170: play_file, then the lock
PlayFileCommandScript == << <<"io", "open">> >> \o Section("state")
\* main.rs 171-190: the Player call, then a guard for one assignment
TransportCommandScript == << <<"call", "player">> >> \o Section("state")
\* main.rs 194-224: should_advance, next_ready_song, play_file, NowPlaying
AutoAdvanceScript ==
    Section("state") \o Section("state") \o << <<"io", "open">> >>
        \o Section("state")
\* main.rs 230-256 and 349-367: drop(s) comes before player.seek
SeekScript == Section("state") \o << <<"call", "seek">> >>
\* main.rs 331-347 and 369-381: 'p', 'n', '+', '-' call the Player inside
\* the guard's scope
TransportKeyScript ==
    << <<"lock", "state">>, <<"call", "player">>, <<"unlock", "state">> >>
\* main.rs 399-450: space calls play_file with the guard alive
SpaceScript == << <<"lock", "state">>, <<"io", "open">>, <<"unlock", "state">> >>

\* an analyze whose guard on the buffer lives to the end of the caller
AnalyzeScriptKeepsGuard == << <<"lock", "buffer">> >>

\* audio_analysis.rs 155-165: the guard lives in the block that copies the
\* window out; the FFT runs after it
AnalyzeScript == Section("buffer")

\* the feature poll of a tick: analyze, then the snapshot goes into the
\* Session State
PollScript == AnalyzeScript \o Section("state")

\* audio_analysis.rs 54-80 and 117-124, on the audio thread
FlushScript == Section("buffer")
TrySeekScript == Section("buffer")

\* a play_url that takes the Session State guard before the library guard
PlayUrlStateFirstScript ==
    << <<"lock", "state">>, <<"lock", "library">>, <<"io", "exists">>,
       <<"unlock", "library">>, <<"unlock", "state">> >>

\* agent.rs 239-256: play_url with a cached record enqueues inside the
\* library guard's block, after cached_path.exists()
PlayUrlCachedScript ==
    << <<"lock", "library">>, <<"io", "exists">> >> \o Section("state")
        \o << <<"unlock", "library">> >>
\* agent.rs 239-262: the record is missing or its file is
PlayUrlDownloadScript ==
    << <<"lock", "library">>, <<"io", "exists">>, <<"unlock", "library">> >>
        \o Section("state")
\* agent.rs 462-481
TransportToolScript == Section("state")

\* agent.rs 266-288 and 492-522: download, Library::add (which saves the
\* file) under the library guard, the panel, the Command
RetrievalScript ==
    << <<"io", "subprocess">>, <<"lock", "library">>, <<"io", "save">>,
       <<"unlock", "library">> >> \o Section("state") \o Section("state")
\* agent.rs 280-284: the download failed
RetrievalFailedScript == << <<"io", "subprocess">> >> \o Section("state")

ScriptsOf(t) ==
    CASE t = "loop" ->
            {RestoreScript, RefreshScript, DrawScript, DrainScript, PlayFileCommandScript,
             TransportCommandScript, AutoAdvanceScript, SeekScript,
             TransportKeyScript, SpaceScript, PollScript}
      [] t = "audio" -> {FlushScript, TrySeekScript}
      [] t = "agent" ->
            {PlayUrlCachedScript, PlayUrlDownloadScript, TransportToolScript}
      [] t = "task" -> {RetrievalScript, RetrievalFailedScript}

\* the thread is at a call that does I/O
AtIo(t) == threads[t].script # <<>> /\ Head(threads[t].script)[1] = "io"

\* ------------------------------------------------------------- Session State
\* a next_ready_song that takes the head of the queue whatever its status
HeadPos(q) == IF q = <<>> THEN 0 ELSE 1

\* AppState::next_ready_song: the index of the entry it removes, 0 for None
NextReadyPos(q) == FirstIndex(q, LAMBDA s : s.status = "Ready")

\* a removal that is not followed by clamp_cursors
CursorNotClamped(cursor, q) == cursor

\* the queue cursor after a removal from the queue followed by clamp_cursors
CursorAfterRemoval(cursor, q) == ClampCursor(cursor, q)

\* the queue cursor after replace_queue's clear followed by clamp_cursors
CursorAfterClear(cursor) == ClampCursor(cursor, <<>>)

\* AppState::move_cursor_up / move_cursor_down for one panel
CursorUp(cursor) == IF cursor > 0 THEN cursor - 1 ELSE cursor
CursorDown(cursor, coll) ==
    IF Len(coll) # 0 THEN Min(cursor + 1, Len(coll) - 1) ELSE cursor

LibraryEntry(url) ==
    [video_id |-> VideoId(url), title |-> MetaTitle(url),
     artist |-> MetaArtist(url), url |-> url,
     duration_secs |-> MetaDuration(url),
     file_path |-> CachePath(VideoId(url))]

ReadySong(title, artist, url, path, duration) ==
    [Song_new_queued(title, artist, url) EXCEPT
        !.file_path = path, !.duration = duration, !.status = "Ready"]

\* the Song a library record restores to (run_app startup, persist_to_library)
PanelSong(entry) ==
    ReadySong(entry.title, entry.artist, entry.url,
              entry.file_path, entry.duration_secs)

\* ------------------------------------------------------------ agent requests
MaxRequests == 2
MaxToolCalls == 2
RequestIds == 1..MaxRequests

\* a request that was not submitted
NoRequest == [pc |-> "none", left |-> 0]

\* -------------------------------------------------------------------- Init
\* run_app up to the first tick: the index is loaded, the panel restored from
\* the records whose cached file exists, AppState::new, Player::new
StartupFrom(indexes) ==
    /\ lib \in indexes
    /\ library \in {<<>>} \cup {<<PanelSong(lib[i])>> : i \in 1..Len(lib)}
    /\ queue = <<>>
    /\ current = <<>>
    /\ paused = FALSE
    /\ volume = DefaultVolume
    /\ pending_commands = <<>>
    /\ status_message = NoMessage
    /\ focused_panel = "Library"
    /\ library_cursor = 0
    /\ queue_cursor = 0
    /\ sink = [empty |-> TRUE, paused |-> FALSE, volume |-> DefaultVolume,
               live |-> 0]
    /\ pc = "drain"
    /\ commands = <<>>
    /\ tasks = EmptyBag
    /\ now = 0
    /\ created = 0
    /\ failed = FALSE
    /\ orphaned = FALSE
    /\ enqCount = 0
    /\ appliedCount = 0
    /\ tickApplied = <<>>
    /\ tickAdvance = <<>>
    /\ tickKey = <<>>
    /\ audio = NoAudio
    /\ threads = [t \in Threads |-> Idle]
    /\ probe = <<>>
    /\ agent_status = "Idle"
    /\ requests = [r \in RequestIds |-> NoRequest]

\* the index file is absent or holds one record
Startup == StartupFrom({<<>>, <<LibraryEntry("u1")>>})

\* the bounds of a run
Limits(cmds, objects, time) ==
    [cmds |-> cmds, objects |-> objects, time |-> time, pulls |-> 0,
     analyses |-> 0]

Init == Startup /\ limits = Limits(MaxQueueCmds, MaxObjects, MaxTime)

InitStatus == Startup /\ limits = Limits(MaxCmds, MaxObjects, MaxTime)

InitCmd == Startup /\ limits = Limits(MaxCmds, MaxPlayUrls, MaxTime)

\* the index holds one record, of a stereo or of a mono file
InitAudio ==
    /\ StartupFrom({<<LibraryEntry("u1")>>, <<LibraryEntry("u2")>>})
    /\ limits = [Limits(MaxQueueCmds, MaxObjects, MaxAudioTime) EXCEPT
                     !.pulls = MaxPulls, !.analyses = MaxAnalyses]

\* frames: what each actor leaves alone
aside == <<limits, threads, probe, agent_status, requests>>
loopLocal == <<pc, commands, appliedCount, tickApplied, tickAdvance, tickKey>>
agentLocal == <<lib, tasks, created, failed, orphaned>>
cmdQueue == <<pending_commands, enqCount>>
cursors == <<focused_panel, library_cursor, queue_cursor>>
transport == <<current, paused, volume, sink>>

\* --------------------------------------------------------- orchestration loop
\* a loop that logs the error of play_file and goes on to the next tick
DrainAfterError ==
    /\ pc \in {"drain", "error"}
    /\ LET d == DrainAll(pending_commands) IN
        /\ commands' = d.batch
        /\ pending_commands' = d.rest
        /\ pc' = IF d.batch = <<>> THEN "advance" ELSE "apply"
    /\ tickApplied' = <<>>
    /\ tickAdvance' = <<>>
    /\ tickKey' = <<>>
    /\ audio' = [audio EXCEPT !.polled = FALSE]
    /\ UNCHANGED <<queue, library, status_message, enqCount, appliedCount,
                   now, aside>>
    /\ UNCHANGED <<transport, cursors, agentLocal>>

\* main.rs 142-147: the batch is taken under one lock acquisition
Drain ==
    /\ pc = "drain"
    /\ LET d == DrainAll(pending_commands) IN
        /\ commands' = d.batch
        /\ pending_commands' = d.rest
        /\ pc' = IF d.batch = <<>> THEN "advance" ELSE "apply"
    /\ tickApplied' = <<>>
    /\ tickAdvance' = <<>>
    /\ tickKey' = <<>>
    /\ audio' = [audio EXCEPT !.polled = FALSE]
    /\ UNCHANGED <<queue, library, status_message, enqCount, appliedCount,
                   now, aside>>
    /\ UNCHANGED <<transport, cursors, agentLocal>>

\* the NowPlaying song a PlayFile Command builds (main.rs 159-161)
PlayFileSong(cmd) ==
    [Song_new_queued(cmd.title, cmd.artist, cmd.url) EXCEPT
        !.file_path = cmd.path, !.duration = cmd.duration_secs]

\* main.rs 153-191: one iteration of `for cmd in commands`; a failed
\* play_file leaves run_app through `?`
ApplyCommand ==
    /\ pc = "apply"
    /\ commands # <<>>
    /\ LET n == NextCommand(commands)
           cmd == n.cmd
       IN
        /\ commands' = n.rest
        /\ appliedCount' = appliedCount + 1
        /\ \E outcome \in PlayOutcomes :
            /\ cmd.type # "PlayFile" => outcome = "ok"
            /\ tickApplied' = Append(tickApplied, <<cmd.type, outcome, cmd.seq>>)
            /\ pc' = IF outcome # "ok" THEN "error"
                     ELSE IF n.rest = <<>> THEN "advance" ELSE "apply"
            /\ CASE cmd.type = "PlayFile" ->
                    /\ sink' = Player_play_file(sink, outcome)
                    /\ audio' = Player_play_file_analyzer(audio, cmd.path,
                                                          outcome, now)
                    /\ IF outcome = "ok"
                       THEN /\ current' = <<NewNowPlaying(PlayFileSong(cmd))>>
                            /\ paused' = FALSE
                       ELSE UNCHANGED <<current, paused>>
                    /\ UNCHANGED volume
                 [] cmd.type = "Skip" ->
                    /\ sink' = Player_stop(sink)
                    /\ audio' = Player_stop_relay(audio)
                    /\ current' = <<>>
                    /\ UNCHANGED <<paused, volume>>
                 [] cmd.type = "Pause" ->
                    /\ sink' = Player_pause(sink)
                    /\ paused' = TRUE
                    /\ UNCHANGED <<current, volume, audio>>
                 [] cmd.type = "Resume" ->
                    /\ sink' = Player_resume(sink)
                    /\ paused' = FALSE
                    /\ UNCHANGED <<current, volume, audio>>
                 [] cmd.type = "SetVolume" ->
                    /\ sink' = Player_set_volume(sink, cmd.level)
                    /\ volume' = cmd.level
                    /\ UNCHANGED <<current, paused, audio>>
    /\ UNCHANGED <<queue, library, status_message, tickAdvance, tickKey, now,
                   aside>>
    /\ UNCHANGED <<cmdQueue, cursors, agentLocal>>

\* main.rs 196-199
ShouldAdvance == current # <<>> /\ Player_is_empty(sink)

\* main.rs 194-224: auto-advance.  should_advance reads only what the loop's
\* own thread writes, so the test and the lock section of next_ready_song
\* are one step
AutoAdvance ==
    /\ pc = "advance"
    /\ IF ~ShouldAdvance
       THEN /\ pc' = "input"
            /\ tickAdvance' = <<"nothing", "ok">>
            /\ UNCHANGED <<queue, queue_cursor, library_cursor, current,
                           paused, sink, audio>>
       ELSE LET pos == NextReadyPos(queue) IN
            IF pos = 0
            THEN /\ current' = <<>>
                 /\ pc' = "input"
                 /\ tickAdvance' = <<"exhausted", "ok">>
                 /\ UNCHANGED <<queue, queue_cursor, library_cursor, paused,
                                sink, audio>>
            ELSE LET song == queue[pos] IN
                 /\ queue' = RemoveAt(queue, pos)
                 /\ queue_cursor' = CursorAfterRemoval(queue_cursor, queue')
                 /\ library_cursor' = ClampCursor(library_cursor, library)
                 /\ IF song.file_path # NoPath
                    THEN \E outcome \in PlayOutcomes :
                         /\ sink' = Player_play_file(sink, outcome)
                         /\ audio' = Player_play_file_analyzer(
                                          audio, song.file_path, outcome, now)
                         /\ tickAdvance' = <<"play", outcome>>
                         /\ IF outcome = "ok"
                            THEN /\ current' = <<NewNowPlaying(song)>>
                                 /\ paused' = FALSE
                                 /\ pc' = "input"
                            ELSE /\ pc' = "error"
                                 /\ UNCHANGED <<current, paused>>
                    ELSE /\ pc' = "input"
                         /\ tickAdvance' = <<"unresolved", "ok">>
                         /\ UNCHANGED <<current, paused, sink, audio>>
    /\ UNCHANGED <<library, volume, status_message, focused_panel, commands,
                   appliedCount, tickApplied, tickKey, now, aside>>
    /\ UNCHANGED <<cmdQueue, agentLocal>>

\* ------------------------------------------------------------ input handlers
\* main.rs 226-467: at most one event is handled per tick, in normal mode
KeyFrame ==
    UNCHANGED <<library, status_message, commands, appliedCount, tickApplied,
                tickAdvance, volume, now, aside, cmdQueue, agentLocal>>

\* event::poll(tick_rate) times out
PollTimeout ==
    /\ pc = "input"
    /\ pc' = "drain"
    /\ tickKey' = <<"none", "ok">>
    /\ UNCHANGED <<queue, current, paused, sink, cursors, audio>>
    /\ KeyFrame

\* main.rs 326-329, 469-472: 'q' sets should_quit and the loop breaks
KeyQuit ==
    /\ pc = "input"
    /\ pc' = "done"
    /\ tickKey' = <<"q", "ok">>
    /\ UNCHANGED <<queue, current, paused, sink, cursors, audio>>
    /\ KeyFrame

\* a toggle that flips the flag and leaves the sink as it is
TogglePauseFlagOnly(s) ==
    /\ paused' = ~paused
    /\ sink' = s

\* main.rs 452-461 and 331-341: paused is flipped, then the sink follows it
TogglePause(s) ==
    /\ paused' = ~paused
    /\ sink' = IF ~paused THEN Player_pause(s) ELSE Player_resume(s)

\* main.rs 331-341
KeyP ==
    /\ pc = "input"
    /\ pc' = "drain"
    /\ TogglePause(sink)
    /\ tickKey' = <<"p", "ok">>
    /\ UNCHANGED <<queue, current, cursors, audio>>
    /\ KeyFrame

\* main.rs 343-347
KeyN ==
    /\ pc = "input"
    /\ pc' = "drain"
    /\ sink' = Player_stop(sink)
    /\ audio' = Player_stop_relay(audio)
    /\ current' = <<>>
    /\ tickKey' = <<"n", "ok">>
    /\ UNCHANGED <<queue, paused, cursors>>
    /\ KeyFrame

\* main.rs 349-367: 'f' and 'b' seek when a NowPlaying exists; the guard on
\* the Session State is dropped before Player::seek
KeySeek ==
    /\ pc = "input"
    /\ pc' = "drain"
    /\ IF current # <<>>
       THEN /\ audio' = Player_seek(audio, sink)
            /\ tickKey' = <<"seek", "ok">>
       ELSE /\ tickKey' = <<"seek", "idle">>
            /\ UNCHANGED audio
    /\ UNCHANGED <<queue, current, paused, sink, cursors>>
    /\ KeyFrame

\* main.rs 230-256: a click seeks when it is on the progress bar of a
\* NowPlaying whose duration is known and positive; onBar is whether the
\* click is inside progress_bar_area
MouseSeek ==
    /\ pc = "input"
    /\ pc' = "drain"
    /\ \E onBar \in BOOLEAN :
        IF onBar /\ current # <<>> /\ current[1].song.duration > 0
        THEN /\ audio' = Player_seek(audio, sink)
             /\ tickKey' = <<"click", "ok">>
        ELSE /\ tickKey' = <<"click", "idle">>
             /\ UNCHANGED audio
    /\ UNCHANGED <<queue, current, paused, sink, cursors>>
    /\ KeyFrame

\* main.rs 369-374: '+' / '='.  volume is a u8: when volume + 5 passes 255 the
\* addition panics in a build with overflow checks and wraps in one without
KeyVolumeUp ==
    /\ pc = "input"
    /\ tickKey' = <<"+", "ok">>
    /\ \E wraps \in BOOLEAN :
        LET sum == volume + 5 IN
        IF sum < U8Modulus \/ wraps
        THEN /\ sum < U8Modulus => wraps
             /\ volume' = Min(sum % U8Modulus, 100)
             /\ sink' = Player_set_volume(sink, volume')
             /\ pc' = "drain"
        ELSE /\ pc' = "error"
             /\ UNCHANGED <<volume, sink>>
    /\ UNCHANGED <<queue, current, paused, cursors, library, status_message,
                   commands, appliedCount, tickApplied, tickAdvance, now,
                   aside, cmdQueue, agentLocal, audio>>

\* main.rs 376-381: '-' is a saturating_sub
KeyVolumeDown ==
    /\ pc = "input"
    /\ pc' = "drain"
    /\ tickKey' = <<"-", "ok">>
    /\ volume' = IF volume < 5 THEN 0 ELSE volume - 5
    /\ sink' = Player_set_volume(sink, volume')
    /\ UNCHANGED <<queue, current, paused, cursors, library, status_message,
                   commands, appliedCount, tickApplied, tickAdvance, now,
                   aside, cmdQueue, agentLocal, audio>>

\* main.rs 383-389: Up / Down move the cursor of the focused panel
KeyUp ==
    /\ pc = "input"
    /\ pc' = "drain"
    /\ IF focused_panel = "Library"
       THEN /\ library_cursor' = CursorUp(library_cursor)
            /\ UNCHANGED queue_cursor
       ELSE /\ queue_cursor' = CursorUp(queue_cursor)
            /\ UNCHANGED library_cursor
    /\ tickKey' = <<"up", "ok">>
    /\ UNCHANGED <<queue, current, paused, sink, focused_panel, audio>>
    /\ KeyFrame

KeyDown ==
    /\ pc = "input"
    /\ pc' = "drain"
    /\ IF focused_panel = "Library"
       THEN /\ library_cursor' = CursorDown(library_cursor, library)
            /\ UNCHANGED queue_cursor
       ELSE /\ queue_cursor' = CursorDown(queue_cursor, queue)
            /\ UNCHANGED library_cursor
    /\ tickKey' = <<"down", "ok">>
    /\ UNCHANGED <<queue, current, paused, sink, focused_panel, audio>>
    /\ KeyFrame

\* main.rs 391-397: Left / Right switch the focused panel
KeyLeftRight ==
    /\ pc = "input"
    /\ pc' = "drain"
    /\ \E panel \in {"Library", "Queue"} : focused_panel' = panel
    /\ tickKey' = <<"panel", "ok">>
    /\ UNCHANGED <<queue, current, paused, sink, library_cursor, queue_cursor,
                   audio>>
    /\ KeyFrame

\* main.rs 399-462: space plays the selected Song, else toggles pause.
\* The handler holds the Session State lock from start to end.
KeySpace ==
    /\ pc = "input"
    /\ pc' = "drain"
    /\ LET coll == IF focused_panel = "Library" THEN library ELSE queue
           idx == IF focused_panel = "Library" THEN library_cursor
                  ELSE queue_cursor
           selected == idx < Len(coll) /\ coll[idx + 1].status = "Ready"
           song == coll[idx + 1]
           removed == focused_panel = "Queue" /\ selected
           q1 == IF removed THEN RemoveAt(queue, idx + 1) ELSE queue
       IN
        /\ queue' = q1
        /\ queue_cursor' = IF removed THEN CursorAfterRemoval(queue_cursor, q1)
                           ELSE queue_cursor
        /\ library_cursor' = IF removed THEN ClampCursor(library_cursor, library)
                             ELSE library_cursor
        /\ IF selected /\ song.file_path # NoPath
           THEN \E outcome \in PlayOutcomes :
                /\ tickKey' = <<"space:play", outcome>>
                /\ audio' = Player_play_file_analyzer(audio, song.file_path,
                                                      outcome, now)
                /\ IF outcome = "ok"
                   THEN /\ sink' = Player_play_file(sink, outcome)
                        /\ current' = <<NewNowPlaying(song)>>
                        /\ paused' = FALSE
                   ELSE /\ UNCHANGED current
                        /\ IF current # <<>>
                           THEN TogglePause(Player_play_file(sink, outcome))
                           ELSE /\ sink' = Player_play_file(sink, outcome)
                                /\ UNCHANGED paused
           ELSE /\ tickKey' = <<"space:toggle", "ok">>
                /\ UNCHANGED <<current, audio>>
                /\ IF current # <<>>
                   THEN TogglePause(sink)
                   ELSE UNCHANGED <<paused, sink>>
    /\ UNCHANGED focused_panel
    /\ KeyFrame

\* ---------------------------------------------------------------- library
\* Library::find_by_url: index of the first record with the url, 0 for None
FindByUrl(entries, url) == FirstIndex(entries, LAMBDA e : e.url = url)

\* an add that appends whatever the index holds
Library_add_appends(entries, entry) == Append(entries, entry)

\* Library::add: upsert keyed by video_id
Library_add(entries, entry) ==
    LET i == FirstIndex(entries, LAMBDA e : e.video_id = entry.video_id) IN
    IF i # 0 THEN [entries EXCEPT ![i] = entry] ELSE Append(entries, entry)

\* a LibraryEntry as a retrieval builds it (agent.rs 499-507): the id is what
\* the fetch printed for the url, the file is named after the id
Entry(video_id, url, title) ==
    [video_id |-> video_id, title |-> title, artist |-> MetaArtist(url),
     url |-> url, duration_secs |-> MetaDuration(url),
     file_path |-> CachePath(video_id)]

VideoIds == {"v1", "v2"}
Titles == {"t1", "t2"}
Entries == {Entry(v, u, ti) : v \in VideoIds, u \in Urls, ti \in Titles}

\* the index files the program writes: up to MaxFileEntries records, no id
\* twice
LibraryFiles ==
    {f \in UNION {[1..n -> Entries] : n \in 0..MaxFileEntries} :
        \A i \in 1..Len(f) : \A j \in 1..Len(f) :
            f[i].video_id = f[j].video_id => i = j}

\* Library::find_by_url as an Option: <<>> for None
Library_find_by_url(entries, url) ==
    IF FindByUrl(entries, url) = 0 THEN <<>>
    ELSE <<entries[FindByUrl(entries, url)]>>

\* a call of Library::add on the loaded index
LibraryAdd(entry) ==
    /\ lib' = Library_add(lib, entry)
    /\ probe' = <<[op |-> "add", entry |-> entry, before |-> lib]>>
    /\ UNCHANGED <<sessionVars, sink, pc, commands, tasks, now, created,
                   failed, enqCount, appliedCount, tickApplied, tickAdvance,
                   tickKey, orphaned, limits, audio, threads,
                   agent_status, requests>>

\* a persist that pushes the Song whatever the panel holds
PanelAfterPersistPushes(panel, url) ==
    Append(panel, PanelSong(LibraryEntry(url)))

\* persist_to_library, the panel part (agent.rs 512-521)
PanelAfterPersist(panel, url) ==
    IF \E i \in 1..Len(panel) : panel[i].url = url
    THEN panel
    ELSE Append(panel, PanelSong(LibraryEntry(url)))

\* ------------------------------------------------------------- agent tools
\* an agent that holds the Player and stops it itself
AgentTransportDirect ==
    /\ sink' = Player_stop(sink)
    /\ UNCHANGED <<current, paused, volume>>

\* an agent whose tools set the paused flag themselves
AgentTransportPauses ==
    /\ paused' = TRUE
    /\ UNCHANGED <<current, volume, sink>>

\* Agent holds the Session State, the Library and the Downloader, and no
\* Player: its tools and the tasks they spawn leave the transport alone
AgentTransport == UNCHANGED transport

AgentFrame ==
    /\ UNCHANGED <<loopLocal, focused_panel, now, aside, audio>>
    /\ AgentTransport

\* requested is a ghost: the level the tool call asked for
TransportCommands ==
    {[type |-> "Skip"], [type |-> "Pause"], [type |-> "Resume"]}
        \cup {[type |-> "SetVolume", level |-> l % U8Modulus,
                requested |-> l] : l \in RequestedLevels}

\* agent.rs 462-481: skip / pause / resume / set_volume enqueue a Command.
\* `as u8` keeps the low eight bits of the requested level
ToolTransport(types) ==
    /\ \E cmd \in {c \in TransportCommands : c.type \in types} : Enqueue(cmd)
    /\ UNCHANGED <<queue, library, library_cursor, queue_cursor,
                   status_message, agentLocal>>
    /\ AgentFrame

\* the PlayFile Command for a resolved record
PlayFileCmd(entry) ==
    [type |-> "PlayFile", path |-> entry.file_path, title |-> entry.title,
     artist |-> entry.artist, url |-> entry.url,
     duration_secs |-> entry.duration_secs]

\* a spawned retrieval task (tokio::spawn, agent.rs 266, 342, 434)
Retrieval(url, kind) == [url |-> url, kind |-> kind, pc |-> "downloading"]

\* agent.rs 235-288: play_url.  exists is the outcome of cached_path.exists()
ToolPlayUrl(url) ==
    /\ \E exists \in BOOLEAN :
        LET i == FindByUrl(lib, url) IN
        IF i # 0 /\ exists
        THEN /\ Enqueue(PlayFileCmd(lib[i]))
             /\ UNCHANGED <<tasks, created, status_message>>
        ELSE /\ created < limits.objects
             /\ status_message' = "Downloading..."
             /\ tasks' = tasks (+) SetToBag({Retrieval(url, "play")})
             /\ created' = created + 1
             /\ UNCHANGED cmdQueue
    /\ UNCHANGED <<queue, library, library_cursor, queue_cursor, lib, failed,
                   orphaned>>
    /\ AgentFrame

\* a placeholder left at the status Song::new_queued gives
PlaceholderQueued(url) == Song_new_queued(ResultTitle(url), "", url)

\* the placeholder pushed for a search result (agent.rs 327-336, 419-428)
Placeholder(url) ==
    [Song_new_queued(ResultTitle(url), "", url) EXCEPT
        !.status = "Downloading"]

\* agent.rs 301-365 and 393-458: one search result of search_and_queue or
\* replace_queue: a Ready Song from the index, or a placeholder and its
\* background retrieval
QueueResult(url) ==
    /\ created < limits.objects
    /\ created' = created + 1
    /\ \E exists \in BOOLEAN :
        LET i == FindByUrl(lib, url) IN
        IF i # 0 /\ exists
        THEN /\ queue' = Append(queue,
                    ReadySong(lib[i].title, lib[i].artist, url,
                              lib[i].file_path, lib[i].duration_secs))
             /\ UNCHANGED tasks
        ELSE /\ queue' = Append(queue, Placeholder(url))
             /\ tasks' = tasks (+) SetToBag({Retrieval(url, "queue")})
    /\ UNCHANGED <<library, library_cursor, queue_cursor, lib, failed,
                   orphaned, status_message, cmdQueue>>
    /\ AgentFrame

\* agent.rs 379-383: replace_queue clears the queue and clamps the cursors
ReplaceQueueClear ==
    /\ queue' = <<>>
    /\ queue_cursor' = CursorAfterClear(queue_cursor)
    /\ library_cursor' = ClampCursor(library_cursor, library)
    /\ UNCHANGED <<library, status_message, cmdQueue, agentLocal>>
    /\ AgentFrame

\* ----------------------------------------------------- background retrievals
\* a failure that leaves the status message as it is
StatusAfterFailureSilent(kind, message) == message

\* download_song returns Err (agent.rs 281-285, 360-362, 453-455)
StatusAfterFailure(kind, message) ==
    IF kind = "play" THEN "Download error" ELSE message

\* a failure that removes the entries carrying the url
QueueAfterFailureDrop(q, url) == SelectSeq(q, LAMBDA s : s.url # url)

\* the queue after a failed retrieval: the Err branch only logs
QueueAfterFailure(q, url) == q

DownloadFail(t) ==
    /\ t.pc = "downloading"
    /\ tasks' = tasks (-) SetToBag({t})
    /\ failed' = (failed \/ t.kind = "queue")
    /\ status_message' = StatusAfterFailure(t.kind, status_message)
    /\ queue' = QueueAfterFailure(queue, t.url)
    /\ UNCHANGED <<library, library_cursor, queue_cursor, lib, created,
                   orphaned, cmdQueue>>
    /\ AgentFrame

\* download_song returns Ok; persist_to_library writes the index
\* (agent.rs 499-510)
DownloadOk(t) ==
    /\ t.pc = "downloading"
    /\ lib' = Library_add(lib, LibraryEntry(t.url))
    /\ tasks' = (tasks (-) SetToBag({t})) (+) SetToBag({[t EXCEPT !.pc = "panel"]})
    /\ UNCHANGED <<queue, library, library_cursor, queue_cursor, created,
                   failed, orphaned, status_message, cmdQueue>>
    /\ AgentFrame

\* persist_to_library adds the Song to the panel (agent.rs 512-521)
PersistPanel(t) ==
    /\ t.pc = "panel"
    /\ library' = PanelAfterPersist(library, t.url)
    /\ tasks' = (tasks (-) SetToBag({t}))
                    (+) SetToBag({[t EXCEPT !.pc = "complete"]})
    /\ UNCHANGED <<queue, library_cursor, queue_cursor, lib, created, failed,
                   orphaned, status_message, cmdQueue>>
    /\ AgentFrame

\* a completion that inserts the Song when no entry carries the url
QueueAfterCompletionInsert(q, url) ==
    IF \E i \in 1..Len(q) : q[i].url = url
    THEN [i \in 1..Len(q) |->
            IF q[i].url = url
            THEN [q[i] EXCEPT !.file_path = CachePath(VideoId(url)),
                              !.status = "Ready"]
            ELSE q[i]]
    ELSE Append(q, PanelSong(LibraryEntry(url)))

\* a completion that sets the status and leaves the file and the duration
QueueAfterCompletionStatusOnly(q, url) ==
    [i \in 1..Len(q) |->
        IF q[i].url = url THEN [q[i] EXCEPT !.status = "Ready"] ELSE q[i]]

\* a completion that marks the entry Queued
QueueAfterCompletionQueued(q, url) ==
    [i \in 1..Len(q) |->
        IF q[i].url = url THEN [q[i] EXCEPT !.status = "Queued"] ELSE q[i]]

\* agent.rs 348-358, 440-451: the entry found by url is made Ready in place
QueueAfterCompletion(q, url) ==
    LET i == FirstIndex(q, LAMBDA s : s.url = url) IN
    IF i # 0
    THEN [q EXCEPT ![i] = [@ EXCEPT !.title = MetaTitle(url),
                                    !.artist = MetaArtist(url),
                                    !.file_path = CachePath(VideoId(url)),
                                    !.duration = MetaDuration(url),
                                    !.status = "Ready"]]
    ELSE q

\* the last lock section of a successful retrieval
Complete(t) ==
    /\ t.pc = "complete"
    /\ tasks' = tasks (-) SetToBag({t})
    /\ IF t.kind = "queue"
       THEN /\ queue' = QueueAfterCompletion(queue, t.url)
            /\ orphaned' = (orphaned \/ ~\E i \in 1..Len(queue) :
                                            queue[i].url = t.url)
            /\ UNCHANGED <<cmdQueue, status_message>>
       ELSE /\ status_message' = NoMessage
            /\ Enqueue(PlayFileCmd(LibraryEntry(t.url)))
            /\ UNCHANGED <<queue, orphaned>>
    /\ UNCHANGED <<library, library_cursor, queue_cursor, lib, created,
                   failed>>
    /\ AgentFrame

\* the audio thread reaches the end of the stream: inner.next() is None
\* (audio_analysis.rs 87), the sink drops the source with what its batch
\* holds, and Sink::empty turns true
TrackEnds ==
    /\ ~sink.empty
    /\ ~sink.paused
    /\ sink' = [sink EXCEPT !.empty = TRUE, !.live = @ - 1]
    /\ audio' = Player_stop_relay(audio)
    /\ UNCHANGED <<queue, library, current, paused, volume, status_message,
                   now, aside>>
    /\ UNCHANGED <<loopLocal, cmdQueue, cursors, agentLocal>>

\* the audio thread pulls a sample from the AnalyzingSource of a sink that
\* is playing (a paused sink yields silence without asking its source)
Pull ==
    /\ ~sink.empty
    /\ ~sink.paused
    /\ audio.pulled < limits.pulls
    /\ audio' = Relay_next(audio)
    /\ UNCHANGED <<sessionVars, enqCount, sink, now, aside>>
    /\ UNCHANGED <<loopLocal, agentLocal>>

\* the loop polls the features at the start of a tick, once per tick.  The
\* bass energy is an input, the same for the same window
GetAudioFeatures ==
    /\ pc = "drain"
    /\ ~audio.polled
    /\ audio.analyses < limits.analyses
    /\ \E bass \in BassLevels :
        /\ (/\ Len(audio.buffer) >= FftSize
            /\ Window(audio.buffer) = audio.win) => bass = audio.win_bass
        /\ audio' = Player_get_audio_features(audio, bass, now)
    /\ UNCHANGED <<sessionVars, enqCount, sink, now, aside>>
    /\ UNCHANGED <<loopLocal, agentLocal>>

\* what the steps of the lock sections leave alone
programVars == <<sessionVars, lib, sink, pc, commands, tasks, now, created,
                 failed, enqCount, appliedCount, tickApplied, tickAdvance,
                 tickKey, orphaned, limits, audio, probe, agent_status,
                 requests>>

\* a thread enters one of its lock sections
StartSection(t) ==
    /\ threads[t] = Idle
    /\ \E s \in ScriptsOf(t) : threads' = [threads EXCEPT ![t].script = s]
    /\ UNCHANGED programVars

\* Mutex::lock: the thread goes on once no other thread holds the lock
LockStep(t) ==
    /\ threads[t].script # <<>>
    /\ LET i == Head(threads[t].script) IN
        /\ i[1] = "lock"
        /\ \A u \in Threads : i[2] \notin threads[u].held
        /\ threads' = [threads EXCEPT ![t].script = Tail(@),
                                      ![t].held = @ \cup {i[2]}]
    /\ UNCHANGED programVars

\* the guard is dropped
UnlockStep(t) ==
    /\ threads[t].script # <<>>
    /\ LET i == Head(threads[t].script) IN
        /\ i[1] = "unlock"
        /\ threads' = [threads EXCEPT ![t].script = Tail(@),
                                      ![t].held = @ \ {i[2]}]
    /\ UNCHANGED programVars

\* an I/O call or a Player call returns
CallStep(t) ==
    /\ threads[t].script # <<>>
    /\ Head(threads[t].script)[1] \in {"io", "call"}
    /\ threads' = [threads EXCEPT ![t].script = Tail(@)]
    /\ UNCHANGED programVars

\* the wall clock advances
Tick ==
    /\ now < limits.time
    /\ now' = now + 1
    /\ UNCHANGED <<sessionVars, enqCount, sink, aside, audio>>
    /\ UNCHANGED <<loopLocal, agentLocal>>

\* --------------------------------------------------------- handle_input
\* what the steps of an agent request leave alone
agentRest == <<queue, library, current, paused, volume, pending_commands,
               focused_panel, library_cursor, queue_cursor, lib, sink, pc,
               commands, tasks, now, created, failed, enqCount, appliedCount,
               tickApplied, tickAdvance, tickKey, orphaned, limits, audio,
               threads, probe>>

\* main.rs 272-290: Enter submits the input and spawns the request's task
Submit(r) ==
    /\ requests[r].pc = "none"
    /\ requests' = [requests EXCEPT ![r].pc = "spawned"]
    /\ UNCHANGED <<agentRest, agent_status, status_message>>

\* agent.rs 133-142: the context snapshot, then the status Thinking
MarkThinking(r) ==
    /\ requests[r].pc = "spawned"
    /\ agent_status' = "Thinking"
    /\ requests' = [requests EXCEPT ![r].pc = "api"]
    /\ UNCHANGED <<agentRest, status_message>>

\* agent.rs 144-147: call_api returns the tool calls, or an error through `?`
ApiReturns(r) ==
    /\ requests[r].pc = "api"
    /\ \/ \E n \in 0..MaxToolCalls :
            requests' = [requests EXCEPT ![r] = [pc |-> "tools", left |-> n]]
       \/ requests' = [requests EXCEPT ![r].pc = "failed"]
    /\ UNCHANGED <<agentRest, agent_status, status_message>>

\* agent.rs 150-153: the status Acting before a tool call
ToolCallStarts(r) ==
    /\ requests[r].pc = "tools"
    /\ requests[r].left > 0
    /\ agent_status' = "Acting"
    /\ requests' = [requests EXCEPT ![r].pc = "tool"]
    /\ UNCHANGED <<agentRest, status_message>>

\* agent.rs 154-155: execute_tool returns, or its error leaves through `?`
ToolCallEnds(r) ==
    /\ requests[r].pc = "tool"
    /\ \/ requests' = [requests EXCEPT ![r] = [pc |-> "tools",
                                                left |-> @.left - 1]]
       \/ requests' = [requests EXCEPT ![r].pc = "failed"]
    /\ UNCHANGED <<agentRest, agent_status, status_message>>

\* agent.rs 158-161: the status Idle after the last tool call
Finish(r) ==
    /\ requests[r].pc = "tools"
    /\ requests[r].left = 0
    /\ agent_status' = "Idle"
    /\ requests' = [requests EXCEPT ![r].pc = "done_ok"]
    /\ UNCHANGED <<agentRest, status_message>>

\* an error handler that leaves the status as the request left it
StatusAfterAgentErrorKept(status) == status

\* main.rs 284
StatusAfterAgentError(status) == "Idle"

\* main.rs 280-287: the error handler of the spawned task
ErrorHandler(r) ==
    /\ requests[r].pc = "failed"
    /\ agent_status' = StatusAfterAgentError(agent_status)
    /\ status_message' = "Agent error"
    /\ requests' = [requests EXCEPT ![r].pc = "done_err"]
    /\ UNCHANGED agentRest

\* ------------------------------------------------------------ specification
\* the steps of the background retrievals in flight
TaskSteps ==
    \/ \E t \in BagToSet(tasks) : DownloadFail(t)
    \/ \E t \in BagToSet(tasks) : DownloadOk(t)
    \/ \E t \in BagToSet(tasks) : PersistPanel(t)
    \/ \E t \in BagToSet(tasks) : Complete(t)

\* the orchestration loop without its key handlers
LoopSteps ==
    \/ Drain
    \/ ApplyCommand
    \/ AutoAdvance
    \/ PollTimeout
    \/ KeyQuit

\* The queue and its retrievals: the loop, play-selected, the agent's queue
\* tools and skip, the retrievals and the end of a stream.
Next ==
    \/ LoopSteps
    \/ KeySpace
    \/ ToolTransport({"Skip"})
    \/ \E url \in Urls : QueueResult(url)
    \/ ReplaceQueueClear
    \/ TaskSteps
    \/ TrackEnds

Spec == Init /\ [][Next]_vars

\* The Command Queue: the loop and every producer of Commands.
NextCmd ==
    \/ LoopSteps
    \/ ToolTransport({"Skip", "Pause", "Resume", "SetVolume"})
    \/ \E url \in Urls : ToolPlayUrl(url)
    \/ TaskSteps
    \/ TrackEnds

SpecCmd == InitCmd /\ [][NextCmd]_vars

\* The panels: Spec with every key handler that moves a cursor or changes
\* the transport.
NextUI ==
    \/ LoopSteps
    \/ KeySpace
    \/ ToolTransport({"Skip"})
    \/ \E url \in Urls : QueueResult(url)
    \/ ReplaceQueueClear
    \/ TaskSteps
    \/ TrackEnds
    \/ KeyP
    \/ KeyN
    \/ KeyUp
    \/ KeyDown
    \/ KeyLeftRight

SpecUI == Init /\ [][NextUI]_vars

\* Playback of fetched Tracks over time: the loop, play_url, the agent's
\* queue tools and skip, the retrievals, the end of a stream and the clock.
NextPlay ==
    \/ LoopSteps
    \/ ToolTransport({"Skip"})
    \/ \E url \in Urls : ToolPlayUrl(url)
    \/ \E url \in Urls : QueueResult(url)
    \/ ReplaceQueueClear
    \/ TaskSteps
    \/ TrackEnds
    \/ Tick

SpecPlay == Init /\ [][NextPlay]_vars

\* The life of a Song: the loop, play_url with its PlayFile Commands, the
\* agent's queue tools and skip, the retrievals and the end of a stream.
NextStatus ==
    \/ LoopSteps
    \/ ToolTransport({"Skip"})
    \/ \E url \in Urls : ToolPlayUrl(url)
    \/ \E url \in Urls : QueueResult(url)
    \/ ReplaceQueueClear
    \/ TaskSteps
    \/ TrackEnds

SpecStatus == InitStatus /\ [][NextStatus]_vars

\* Elapsed time under pause: the loop, play-selected, the agent's pause and
\* resume, the 'p' key, the end of a stream and the clock.
NextClock ==
    \/ LoopSteps
    \/ KeySpace
    \/ KeyP
    \/ ToolTransport({"Pause", "Resume"})
    \/ TrackEnds
    \/ Tick

SpecClock == InitStatus /\ [][NextClock]_vars

\* Every caller of play_file: the loop with auto-advance, play-selected,
\* play_url with its PlayFile Commands, the agent's queue tool, the
\* retrievals and the end of a stream.
NextPipeline ==
    \/ LoopSteps
    \/ KeySpace
    \/ \E url \in Urls : ToolPlayUrl(url)
    \/ \E url \in Urls : QueueResult(url)
    \/ TaskSteps
    \/ TrackEnds

SpecPipeline == InitStatus /\ [][NextPipeline]_vars

\* The loop with the handlers of the transport keys, and the agent's
\* transport tools.
NextKeys ==
    \/ LoopSteps
    \/ KeySpace
    \/ KeyP
    \/ KeyN
    \/ KeyVolumeUp
    \/ KeyVolumeDown
    \/ ToolTransport({"Skip", "Pause", "Resume", "SetVolume"})
    \/ TrackEnds

SpecKeys == InitStatus /\ [][NextKeys]_vars

\* The paused flag and the sink: the loop with auto-advance, play-selected,
\* the 'p' key, the agent's transport tools, play_url, the agent's queue
\* tool, the retrievals and the end of a stream.
NextTransport ==
    \/ LoopSteps
    \/ KeySpace
    \/ KeyP
    \/ ToolTransport({"Skip", "Pause", "Resume"})
    \/ \E url \in Urls : ToolPlayUrl(url)
    \/ \E url \in Urls : QueueResult(url)
    \/ TaskSteps
    \/ TrackEnds

SpecTransport == InitStatus /\ [][NextTransport]_vars

\* The agent's requests, each in its own task.
NextAgent ==
    \/ \E r \in RequestIds : Submit(r)
    \/ \E r \in RequestIds : MarkThinking(r)
    \/ \E r \in RequestIds : ApiReturns(r)
    \/ \E r \in RequestIds : ToolCallStarts(r)
    \/ \E r \in RequestIds : ToolCallEnds(r)
    \/ \E r \in RequestIds : Finish(r)
    \/ \E r \in RequestIds : ErrorHandler(r)

SpecAgent == InitStatus /\ [][NextAgent]_vars

\* The audio path: the loop without producers of Commands, play-selected,
\* the seek handlers, the feature poll and the audio thread.
NextAudio ==
    \/ Drain
    \/ AutoAdvance
    \/ PollTimeout
    \/ KeySpace
    \/ KeySeek
    \/ MouseSeek
    \/ GetAudioFeatures
    \/ Pull
    \/ TrackEnds

SpecAudio == InitAudio /\ [][NextAudio]_vars

\* Beat detection against the clock: the loop without producers of Commands,
\* play-selected, the feature poll, the audio thread and the clock.
NextBeat ==
    \/ Drain
    \/ AutoAdvance
    \/ PollTimeout
    \/ KeySpace
    \/ GetAudioFeatures
    \/ Pull
    \/ TrackEnds
    \/ Tick

SpecBeat == InitAudio /\ [][NextBeat]_vars

\* The lock sections of the four kinds of thread, interleaved.
NextLocks ==
    \/ \E t \in Threads : StartSection(t)
    \/ \E t \in Threads : LockStep(t)
    \/ \E t \in Threads : UnlockStep(t)
    \/ \E t \in Threads : CallStep(t)

SpecLocks == Init /\ [][NextLocks]_vars

\* Library::add against any index file the program can have written.
InitLibrary ==
    /\ StartupFrom(LibraryFiles)
    /\ limits = Limits(MaxQueueCmds, MaxObjects, MaxTime)

NextLibrary == \E entry \in Entries : LibraryAdd(entry)

SpecLibrary == InitLibrary /\ [][NextLibrary]_vars

C2_AdvanceSeesStoppedAndCleared ==
    (pc = "advance" /\ \E i \in 1..Len(tickApplied) : tickApplied[i][1] = "Skip")
        => (commands = <<>> /\ current = <<>> /\ Player_is_empty(sink))

\* C2 (amended).  Auto-advance is evaluated only when every Command drained
\* in the tick has been applied; and when a Skip was applied in the tick and
\* no PlayFile was applied after it in the same tick, auto-advance finds the
\* pipeline stopped and NowPlaying cleared.
C2_AdvanceSeesBatchApplied ==
    pc = "advance" =>
        /\ commands = <<>>
        /\ \A i \in 1..Len(tickApplied) :
            (/\ tickApplied[i][1] = "Skip"
             /\ \A j \in (i + 1)..Len(tickApplied) :
                    tickApplied[j][1] # "PlayFile")
                => (current = <<>> /\ Player_is_empty(sink))

\* a tick applied PlayFile and then Skip, and auto-advance is about to run
C2_Witness ==
    /\ pc = "advance"
    /\ Len(tickApplied) = 2
    /\ tickApplied[1][1] = "PlayFile"
    /\ tickApplied[2][1] = "Skip"

\* C3.  A step of auto-advance that changes the queue removes exactly the
\* earliest entry whose status is Ready, leaves the other entries in their
\* order, and the Song it starts is that entry; a step of auto-advance that
\* leaves the queue alone starts nothing.
C3_AdvanceTakesEarliestReady ==
    [][(pc = "advance" /\ pc' # "advance") =>
        /\ queue' # queue =>
            \E i \in 1..Len(queue) :
                /\ queue[i].status = "Ready"
                /\ \A j \in 1..(i - 1) : queue[j].status # "Ready"
                /\ queue' = RemoveAt(queue, i)
                /\ current' # current => current' = <<NewNowPlaying(queue[i])>>
        /\ queue' = queue => current' \in {current, <<>>}
      ]_vars

\* auto-advance started a Ready Song and left an earlier entry that is still
\* being retrieved
C3_Witness ==
    /\ pc = "input"
    /\ tickAdvance = <<"play", "ok">>
    /\ Len(queue) = 1
    /\ queue[1].status = "Downloading"
    /\ current # <<>>
    /\ current[1].song.status = "Ready"

\* the queue of the scenario: A not Ready, then B Ready with file and duration
C4_Scenario ==
    /\ Len(queue) = 2
    /\ queue[1].status # "Ready"
    /\ queue[2].status = "Ready"
    /\ queue[2].file_path # NoPath
    /\ queue[2].duration # NoDuration

\* B is playing, A is still queued, and no time has elapsed
C4_Started(a, b) ==
    /\ queue' = <<a>>
    /\ current' # <<>>
    /\ current'[1].song = b
    /\ Elapsed(current'[1], now') = 0
    /\ ~Player_is_empty(sink')

\* C4 (as written).  From the scenario's queue with NowPlaying = None and the
\* controller empty, one evaluation of auto-advance starts B (unless play
\* fails), keeps A, and sets NowPlaying.song = B with elapsed 0.
C4_AdvanceFromIdle ==
    [][(/\ pc = "advance" /\ pc' # "advance"
        /\ current = <<>> /\ Player_is_empty(sink)
        /\ C4_Scenario)
        => (pc' = "error" \/ C4_Started(queue[1], queue[2]))]_vars

\* C4 (amended).  From the scenario's queue with a NowPlaying whose stream
\* has ended (controller empty), one evaluation of auto-advance starts B
\* (unless play fails), keeps A, and sets NowPlaying.song = B with elapsed 0;
\* with NowPlaying = None auto-advance changes neither the queue nor
\* NowPlaying.
C4_AdvanceAfterStreamEnd ==
    [][(pc = "advance" /\ pc' # "advance" /\ Player_is_empty(sink)
        /\ C4_Scenario)
        => IF current # <<>>
           THEN pc' = "error" \/ C4_Started(queue[1], queue[2])
           ELSE queue' = queue /\ current' = <<>>]_vars

\* after the clock has moved, auto-advance has just started B and kept A
C4_Witness ==
    /\ pc = "input"
    /\ tickAdvance = <<"play", "ok">>
    /\ now > 0
    /\ Len(queue) = 1
    /\ queue[1].status # "Ready"
    /\ current # <<>>
    /\ current[1].started_at = now
    /\ Elapsed(current[1], now) = 0

\* C5.  In every state each cursor is below the length of its collection, or
\* 0 when the collection is empty.
C5_CursorsInBounds ==
    /\ queue_cursor \in Nat
    /\ library_cursor \in Nat
    /\ IF Len(queue) = 0 THEN queue_cursor = 0 ELSE queue_cursor < Len(queue)
    /\ IF Len(library) = 0 THEN library_cursor = 0
       ELSE library_cursor < Len(library)

\* the entry under the queue cursor was played and one entry is left
C5_Witness ==
    /\ tickKey = <<"space:play", "ok">>
    /\ focused_panel = "Queue"
    /\ Len(queue) = 1
    /\ queue_cursor = 0
    /\ created = 2

\* C6.  The last step of a successful retrieval for the queue, taken when no
\* queue entry carries its url, leaves the queue exactly as it was.
C6_OrphanCompletionIsNoOp ==
    [][\A t \in BagToSet(tasks) :
        (/\ t.pc = "complete" /\ t.kind = "queue"
         /\ CopiesIn(t, tasks') < CopiesIn(t, tasks)
         /\ \A i \in 1..Len(queue) : queue[i].url # t.url)
        => queue' = queue]_vars

\* a retrieval completed with no entry to update while another entry waits
C6_Witness ==
    /\ orphaned
    /\ queue # <<>>
    /\ tasks = EmptyBag

\* C7.  Once every retrieval has succeeded, no placeholder is left in the
\* queue with status Downloading.
C7_AllPlaceholdersResolved ==
    (tasks = EmptyBag /\ ~failed) =>
        \A i \in 1..Len(queue) : queue[i].status # "Downloading"

\* C8.  The step in which a retrieval for the queue fails leaves the queue
\* as it was (the entry stays, with status Downloading and its fields), and
\* launches no retrieval.
C8_FailureLeavesEntry ==
    [][\A t \in BagToSet(tasks) :
        (/\ t.pc = "downloading" /\ t.kind = "queue"
         /\ CopiesIn(t, tasks') < CopiesIn(t, tasks)
         /\ CopiesIn([t EXCEPT !.pc = "panel"], tasks')
                = CopiesIn([t EXCEPT !.pc = "panel"], tasks))
        => /\ queue' = queue
           /\ tasks' = tasks (-) SetToBag({t})]_vars

\* the only retrieval failed and its placeholder is still Downloading
C8_Witness ==
    /\ failed
    /\ tasks = EmptyBag
    /\ created = 1
    /\ Len(queue) = 1
    /\ queue[1] = Placeholder(queue[1].url)

\* C9.  No step lowers the status of a Song.  A step that keeps the length
\* of the queue keeps every entry in its place and never lowers its status
\* (so a Ready entry stays Ready); any other step appends one entry, removes
\* one entry or clears the queue, without touching the entries that stay.
\* NowPlaying changes only in the orchestration loop: a PlayFile Command
\* creates its Song, auto-advance and play-selected move or copy a Song of
\* the queue or the library panel into it with the status the Song has.  The
\* Songs of the library panel stay as they are.
C9_StatusNeverRegresses ==
    [][/\ \A i \in 1..Len(queue') : queue'[i].status \in SongStatus
       /\ Len(queue') = Len(queue) =>
            \A i \in 1..Len(queue) :
                /\ queue'[i].url = queue[i].url
                /\ Rank(queue'[i].status) >= Rank(queue[i].status)
       /\ Len(queue') > Len(queue) =>
            /\ Len(queue') = Len(queue) + 1
            /\ SubSeq(queue', 1, Len(queue)) = queue
       /\ Len(queue') < Len(queue) =>
            \/ queue' = <<>>
            \/ \E i \in 1..Len(queue) : queue' = RemoveAt(queue, i)
       /\ (current' # current /\ current' # <<>>) =>
            \/ /\ pc = "apply"
               /\ commands # <<>>
               /\ NextCommand(commands).cmd.type = "PlayFile"
               /\ current'[1].song = PlayFileSong(NextCommand(commands).cmd)
            \/ /\ pc \in {"advance", "input"}
               /\ \E i \in 1..Len(queue) :
                    queue' = RemoveAt(queue, i) /\ current'[1].song = queue[i]
            \/ /\ pc = "input"
               /\ \E i \in 1..Len(library) : current'[1].song = library[i]
       /\ \A i \in 1..Len(library) : library'[i] = library[i]
      ]_vars

\* a Song that a retrieval made Ready became the NowPlaying Song, still
\* Ready, and a PlayFile Command for the same url is about to replace it
C9_Witness ==
    /\ current # <<>>
    /\ current[1].song.url = "u2"
    /\ current[1].song.status = "Ready"
    /\ pc = "apply"
    /\ commands # <<>>
    /\ NextCommand(commands).cmd.type = "PlayFile"
    /\ NextCommand(commands).cmd.url = "u2"

\* a step in which play_file returned an error to one of its callers
PlayFailed ==
    \/ pc = "apply" /\ pc' = "error"
    \/ pc = "advance" /\ pc' = "error"
    \/ /\ pc = "input"
       /\ tickKey' # <<>>
       /\ tickKey'[1] = "space:play"
       /\ tickKey'[2] # "ok"

\* C10.  A step in which play fails leaves NowPlaying as it was and the
\* queue with every entry it had.
C10_FailedPlayChangesNothing ==
    [][PlayFailed => (current' = current /\ queue' = queue)]_vars

\* C11.  While a NowPlaying is active and paused, elapsed() does not
\* advance: a step that leaves playback paused and keeps the NowPlaying
\* leaves elapsed() at its value (so its value after the Resume is its value
\* at the Pause).
C11_ElapsedStopsWhilePaused ==
    [][(/\ current # <<>> /\ current' # <<>>
        /\ current'[1].started_at = current[1].started_at
        /\ paused /\ paused')
        => Elapsed(current'[1], now') = Elapsed(current[1], now)]_vars

\* C12.  At every moment at most one pipeline holds a source that was not
\* stopped, and it is the sink the Playback Controller holds.
C12_OnePipeline ==
    /\ sink.live \in {0, 1}
    /\ sink.live = 1 <=> ~Player_is_empty(sink)

\* one batch applied two PlayFile Commands, the second while the first was
\* loaded, and one pipeline is playing
C12_Witness ==
    /\ Len(tickApplied) = 2
    /\ tickApplied[1][1] = "PlayFile" /\ tickApplied[1][2] = "ok"
    /\ tickApplied[2][1] = "PlayFile" /\ tickApplied[2][2] = "ok"
    /\ sink.live = 1

\* C13.  A step of an agent tool or of a retrieval task (it keeps the loop's
\* position and enqueues a Command or changes the queue, the library or the
\* task set) never operates the Playback Controller: the sink is as before.
C13_OnlyLoopTouchesPlayer ==
    [][(/\ pc' = pc
        /\ \/ enqCount' # enqCount
           \/ agentLocal' # agentLocal
           \/ queue' # queue
           \/ library' # library
           \/ status_message' # status_message)
       => UNCHANGED sink]_vars

\* a tool has enqueued a Command and a retrieval has finished while a stream
\* is playing
C13_Witness ==
    /\ ~Player_is_empty(sink)
    /\ pending_commands # <<>>
    /\ lib # <<>>
    /\ pc = "input"

C17_BeatsApart ==
    audio.beat_gap # <<>> => audio.beat_gap[1] >= BeatCooldown

\* the step is a call of get_audio_features
AnalysisStep == audio'.analyses = audio.analyses + 1

\* C18.  A call of analyze that finds no analyzer, or fewer than FFT_SIZE
\* samples in the buffer, returns the all-zero snapshot and leaves the bass
\* history and the cooldown as they were.
C18_ShortBufferGivesDefault ==
    [][(AnalysisStep /\ (~audio.analyzer \/ Len(audio.buffer) < FftSize))
       => /\ audio'.features = DefaultFeatures
          /\ audio'.bass_history = audio.bass_history
          /\ audio'.last_beat = audio.last_beat]_vars

\* an analyzer with a history was polled when its buffer held some samples,
\* fewer than FFT_SIZE
C18_Witness ==
    /\ audio.last_op = "analyze"
    /\ audio.analyzer
    /\ audio.buffer # <<>>
    /\ Len(audio.buffer) < FftSize
    /\ audio.bass_history # <<>>
    /\ audio.features = DefaultFeatures

\* C19.  The buffer never holds more than MAX_BUFFER_SAMPLES samples: it is
\* the newest of what was pushed into it, in the order of the stream.
C19_BufferKeepsNewest ==
    LET n == Len(audio.pushed)
        k == Min(n, MaxBufferSamples)
    IN /\ Len(audio.buffer) <= MaxBufferSamples
       /\ audio.buffer = SubSeq(audio.pushed, n - k + 1, n)
       /\ \A i \in 1..n : \A j \in 1..n :
              i < j => audio.pushed[i] < audio.pushed[j]

\* more than MAX_BUFFER_SAMPLES samples were pushed and the oldest are gone
C19_Witness ==
    /\ Len(audio.pushed) > MaxBufferSamples
    /\ Len(audio.buffer) = MaxBufferSamples
    /\ audio.last_op = "pull"

\* the step is a seek handler calling Player::seek
SeekStep ==
    /\ pc = "input"
    /\ tickKey' \in {<<"seek", "ok">>, <<"click", "ok">>}

\* C20 as stated.  Every seek leaves the local batch and the buffer empty,
\* and analyze returns the all-zero snapshot until FFT_SIZE samples flushed
\* after the seek are in the buffer.
C20_EverySeekClears ==
    [][/\ SeekStep => audio'.local_batch = <<>> /\ audio'.buffer = <<>>
       /\ (AnalysisStep /\ audio.seeked # "no" /\ audio.post_seek < FftSize)
          => audio'.features = DefaultFeatures]_vars

\* C20.  Every seek that finds a sound in the sink leaves the local batch
\* and the buffer empty, and after it analyze returns the all-zero snapshot
\* until FFT_SIZE samples flushed after the seek are in the buffer.
C20_LiveSeekClears ==
    [][/\ (SeekStep /\ ~Player_is_empty(sink))
          => audio'.local_batch = <<>> /\ audio'.buffer = <<>>
       /\ (AnalysisStep /\ audio.seeked = "live" /\ audio.post_seek < FftSize)
          => audio'.features = DefaultFeatures]_vars

\* a seek has emptied a buffer that an analysis had found full, and a poll
\* after it found some samples, too few
C20_Witness ==
    /\ audio.seeked = "live"
    /\ audio.bass_history # <<>>
    /\ audio.post_seek > 0
    /\ audio.post_seek < FftSize
    /\ audio.last_op = "analyze"
    /\ audio.features = DefaultFeatures

\* C15.  No thread holds the Session State lock and a Shared Sample Buffer
\* lock at the same time.
C15_StateAndBufferApart ==
    \A t \in Threads : ~({"state", "buffer"} \subseteq threads[t].held)

\* the loop is inside analyze with the buffer locked while the audio thread
\* waits to flush and a retrieval holds the Session State
C15_Witness ==
    /\ threads["loop"].held = {"buffer"}
    /\ threads["loop"].script = Tail(PollScript)
    /\ threads["audio"].script = FlushScript
    /\ threads["task"].held = {"state"}

\* C16.  No thread is at an I/O call while it holds a lock.
C16_NoIoUnderLock ==
    \A t \in Threads : AtIo(t) => threads[t].held = {}

\* the nearest level in 0..100
ClampedLevel(l) == IF l > 100 THEN 100 ELSE IF l < 0 THEN 0 ELSE l

\* C21.  Applying a SetVolume Command leaves the volume, and the level given
\* to the Player, at the requested level clamped to 0..100; after a volume
\* key both are within 0..100.
C21_VolumeClamped ==
    [][/\ (/\ appliedCount' = appliedCount + 1
           /\ NextCommand(commands).cmd.type = "SetVolume")
          => /\ volume' = ClampedLevel(NextCommand(commands).cmd.requested)
             /\ sink'.volume = volume'
       /\ (tickKey' # tickKey /\ volume' # volume)
          => volume' \in 0..100 /\ sink'.volume = volume']_vars

\* C22.  After a record is persisted, the lookup by its url returns a record
\* with its title, artist, duration and file path.
C22_PersistThenLookup ==
    probe # <<>> /\ probe[1].op = "add" =>
        LET r == probe[1].entry
            found == Library_find_by_url(lib, r.url)
        IN /\ found # <<>>
           /\ found[1].title = r.title
           /\ found[1].artist = r.artist
           /\ found[1].duration_secs = r.duration_secs
           /\ found[1].file_path = r.file_path

\* C23.  Persist is an idempotent upsert keyed by video_id: persisting the
\* record again changes nothing, a record whose id was there replaces that
\* entry where it stood, a new id is appended, and no id is held twice.
C23_IdempotentUpsert ==
    /\ \A i \in 1..Len(lib) : \A j \in 1..Len(lib) :
           lib[i].video_id = lib[j].video_id => i = j
    /\ probe # <<>> /\ probe[1].op = "add" =>
        LET r == probe[1].entry
            before == probe[1].before
            held == {i \in 1..Len(before) : before[i].video_id = r.video_id}
        IN /\ Library_add(lib, r) = lib
           /\ IF held # {}
              THEN /\ Len(lib) = Len(before)
                   /\ \A i \in 1..Len(lib) :
                          lib[i] = IF i \in held THEN r ELSE before[i]
              ELSE lib = Append(before, r)

\* a record whose id was in a two-entry index has replaced another version
\* of it, in its place
C23_Witness ==
    /\ probe # <<>>
    /\ probe[1].op = "add"
    /\ Len(probe[1].before) = 2
    /\ Len(lib) = 2
    /\ lib # probe[1].before
    /\ lib[2] = probe[1].entry

\* the step launches the retrieval t
Launched(t) ==
    t.pc = "downloading" /\ CopiesIn(t, tasks') > CopiesIn(t, tasks)

\* the step appends a Downloading entry for the url to the queue
PlaceholderAppended(url) ==
    /\ Len(queue') = Len(queue) + 1
    /\ SubSeq(queue', 1, Len(queue)) = queue
    /\ queue'[Len(queue')].url = url
    /\ queue'[Len(queue')].status = "Downloading"

\* C24 as stated.  Every retrieval is launched by a step that has appended
\* a Downloading entry for its url to the queue.
C24_PlaceholderForEveryRetrieval ==
    [][\A t \in BagToSet(tasks') :
           Launched(t) => PlaceholderAppended(t.url)]_vars

\* C24.  Every retrieval launched for the queue is launched by a step that
\* has appended a Downloading entry for its url; the retrieval of play_url
\* is launched with the status message set and the queue as it was.
C24_PlaceholderForQueueRetrieval ==
    [][\A t \in BagToSet(tasks') :
           Launched(t) =>
               IF t.kind = "queue" THEN PlaceholderAppended(t.url)
               ELSE queue' = queue /\ status_message' = "Downloading..."]_vars

\* a retrieval for the queue is in flight, its placeholder the last entry,
\* and a retrieval of play_url is in flight too
C24_Witness ==
    /\ queue # <<>>
    /\ queue[Len(queue)].status = "Downloading"
    /\ BagIn(Retrieval(queue[Len(queue)].url, "queue"), tasks)
    /\ \E url \in Urls : BagIn(Retrieval(url, "play"), tasks)

\* the step is the Err branch of the retrieval t
RetrievalFails(t) ==
    /\ t.pc = "downloading"
    /\ CopiesIn(t, tasks') < CopiesIn(t, tasks)
    /\ BagCardinality(tasks') < BagCardinality(tasks)

\* C25 as stated.  The step in which a retrieval fails leaves the queue,
\* NowPlaying, the status message and the library panel as they were.
C25_FailureChangesNothing ==
    [][\A t \in BagToSet(tasks) :
           RetrievalFails(t) =>
               UNCHANGED <<queue, current, status_message, library>>]_vars

\* C25.  The step in which a retrieval fails leaves the queue, NowPlaying
\* and the library panel as they were.  A failed retrieval for the queue
\* leaves the status message too; a failed retrieval of play_url sets the
\* status message to the download error.
C25_FailureSetsOnlyPlayStatus ==
    [][\A t \in BagToSet(tasks) :
           RetrievalFails(t) =>
               /\ UNCHANGED <<queue, current, library, paused, volume,
                              cursors, pending_commands>>
               /\ status_message' = IF t.kind = "play" THEN "Download error"
                                    ELSE status_message]_vars

\* a retrieval for the queue and a retrieval of play_url have both failed,
\* and the placeholder and the error message are what is left of them
C25_Witness ==
    /\ failed
    /\ tasks = EmptyBag
    /\ created = 2
    /\ status_message = "Download error"
    /\ Len(queue) = 1
    /\ queue[1].status = "Downloading"

\* the step applies a Skip Command or handles the 'n' key
SkipStep ==
    \/ /\ appliedCount' = appliedCount + 1
       /\ NextCommand(commands).cmd.type = "Skip"
    \/ /\ tickKey' # tickKey
       /\ tickKey' = <<"n", "ok">>

\* the step is a play_file that returned Ok
PlaySucceeds ==
    \/ /\ appliedCount' = appliedCount + 1
       /\ tickApplied'[Len(tickApplied')][1] = "PlayFile"
       /\ tickApplied'[Len(tickApplied')][2] = "ok"
    \/ /\ tickAdvance' # tickAdvance
       /\ tickAdvance' = <<"play", "ok">>
    \/ /\ tickKey' # tickKey
       /\ tickKey' = <<"space:play", "ok">>

\* C26.  A Skip Command and the 'n' key leave is_empty() true and NowPlaying
\* cleared, and leave the queue, the library panel and the cursors as they
\* were; is_empty() turns from true to false only in a step whose play_file
\* returned Ok.
C26_SkipStops ==
    [][/\ SkipStep => /\ Player_is_empty(sink')
                      /\ current' = <<>>
                      /\ UNCHANGED <<queue, library, cursors>>
       /\ (Player_is_empty(sink) /\ ~Player_is_empty(sink'))
              => PlaySucceeds]_vars

\* a Skip Command has stopped the pipeline play_file built: no pipeline is
\* left, NowPlaying is cleared and the library panel still holds its Song
C26_Witness ==
    /\ tickApplied # <<>>
    /\ tickApplied[Len(tickApplied)][1] = "Skip"
    /\ sink.volume = 100
    /\ sink.live = 0
    /\ Player_is_empty(sink)
    /\ current = <<>>
    /\ library # <<>>

\* the step applies a Command of the type
Applies(type) ==
    /\ appliedCount' = appliedCount + 1
    /\ NextCommand(commands).cmd.type = type

\* C27.  A Pause Command leaves the controller paused and the paused flag
\* set, a Resume Command leaves both cleared, and applying the same Command
\* to the state it leaves changes nothing; both leave NowPlaying, the queue,
\* the library panel, the cursors, the volume and whether the controller
\* holds a source as they were.
C27_PauseResumeIdempotent ==
    [][/\ Applies("Pause") =>
              /\ paused' /\ sink'.paused
              /\ Player_pause(sink') = sink'
       /\ Applies("Resume") =>
              /\ ~paused' /\ ~sink'.paused
              /\ Player_resume(sink') = sink'
       /\ (Applies("Pause") \/ Applies("Resume")) =>
              /\ UNCHANGED <<current, queue, library, cursors, volume>>
              /\ sink'.empty = sink.empty
              /\ sink'.live = sink.live
              /\ sink'.volume = sink.volume
       /\ (Applies("Pause") /\ paused /\ sink.paused) =>
              UNCHANGED <<sessionVars, sink>>
       /\ (Applies("Resume") /\ ~paused /\ ~sink.paused) =>
              UNCHANGED <<sessionVars, sink>>]_vars

\* two Pause Commands were applied one after the other while a Song plays
C27_Witness ==
    /\ Len(tickApplied) = 2
    /\ tickApplied[1][1] = "Pause"
    /\ tickApplied[2][1] = "Pause"
    /\ current # <<>>
    /\ ~Player_is_empty(sink)
    /\ paused
    /\ sink.paused

\* the thread is at a lock() whose mutex another thread holds
Waits(t) ==
    /\ threads[t].script # <<>>
    /\ Head(threads[t].script)[1] = "lock"
    /\ \E o \in Threads \ {t} : Head(threads[t].script)[2] \in threads[o].held

\* C28.  The audio thread is never at the lock() of the Shared Sample Buffer
\* while another thread holds that lock.
C28_RelayNeverWaits == ~Waits("audio")

\* C29.  An auto-advance that finds a NowPlaying, the controller empty and
\* no Ready entry in the queue clears NowPlaying and leaves the queue, the
\* cursors and the controller as they were.
C29_ExhaustedQueueGoesIdle ==
    [][(/\ pc = "advance"
        /\ tickAdvance' # tickAdvance
        /\ current # <<>>
        /\ Player_is_empty(sink)
        /\ \A i \in 1..Len(queue) : queue[i].status # "Ready")
       => /\ current' = <<>>
          /\ UNCHANGED <<queue, cursors, sink, paused>>]_vars

\* auto-advance has cleared NowPlaying over a queue that holds a placeholder
C29_Witness ==
    /\ pc = "input"
    /\ tickAdvance = <<"exhausted", "ok">>
    /\ current = <<>>
    /\ queue # <<>>
    /\ queue[1].status = "Downloading"

\* the newest at most BassHistoryLen values of the history with bass pushed
RollingWindow(history, bass) ==
    LET pushedBass == Append(history, bass)
        n == Len(pushedBass)
    IN SubSeq(pushedBass, n - Min(n, BassHistoryLen) + 1, n)

\* C30.  An analysis over a full window keeps the newest at most 20 bass
\* values and flags a beat exactly when the bass is above 1.5 times their
\* mean, above the floor, and more than 200 ms after the last beat flagged;
\* the cooldown clock of a controller that has an analyzer changes only in
\* an analysis that flags a beat.
C30_BeatRule ==
    [][/\ (AnalysisStep /\ audio.analyzer /\ Len(audio.buffer) >= FftSize)
          => LET bass == audio'.features.bass
                 window == audio'.bass_history
             IN /\ window = RollingWindow(audio.bass_history, bass)
                /\ Len(window) <= BassHistoryLen
                /\ audio'.features.is_beat
                     <=> /\ 2 * bass * Len(window) > 3 * SeqSum(window)
                         /\ bass > BeatFloor
                         /\ audio.beat_at # <<>>
                                => now - audio.beat_at[1] > BeatCooldown
       /\ (audio.analyzer /\ audio'.analyzer
               /\ audio'.last_beat # audio.last_beat)
          => AnalysisStep /\ audio'.features.is_beat]_vars

\* the mean of each pair of the batch, a lone last sample as it is
PairMeans(b) ==
    [i \in 1..((Len(b) + 1) \div 2) |->
        IF 2 * i <= Len(b) THEN (b[2 * i - 1] + b[2 * i]) \div 2
        ELSE b[2 * i - 1]]

\* C31.  After a sample pull the local batch holds fewer than
\* FLUSH_INTERVAL samples.  A pull that fills the batch flushes it: the
\* buffer's stream grows by the mean of each pair of the batch for a
\* 2-channel stream, by the batch as it is for a 1-channel stream, and the
\* batch is left empty; any other pull adds its sample to the batch and
\* leaves the buffer as it was.
C31_FlushMixesAndEmpties ==
    [][(audio'.pulled = audio.pulled + 1) =>
          LET batch == Append(audio.local_batch, 2 * audio'.pulled)
              mono == IF audio.channels = 2 THEN PairMeans(batch) ELSE batch
          IN /\ Len(audio'.local_batch) < FlushInterval
             /\ IF Len(batch) >= FlushInterval
                THEN /\ audio'.local_batch = <<>>
                     /\ audio'.pushed = audio.pushed \o mono
                     /\ \E k \in 0..Len(audio.buffer) :
                            audio'.buffer =
                                SubSeq(audio.buffer, k + 1, Len(audio.buffer))
                                    \o mono
                ELSE /\ audio'.local_batch = batch
                     /\ audio'.buffer = audio.buffer
                     /\ audio'.pushed = audio.pushed]_vars

\* the relay of a stereo file has flushed twice and its batch is empty
C31_Witness ==
    /\ audio.channels = 2
    /\ audio.last_op = "pull"
    /\ audio.local_batch = <<>>
    /\ Len(audio.pushed) >= 2
    /\ audio.pushed[1] = (2 + 4) \div 2

C33_FailedPlayEndsLoop ==
    [][/\ (/\ appliedCount' = appliedCount + 1
           /\ tickApplied'[Len(tickApplied')][2] # "ok") => pc' = "error"
       /\ (/\ tickAdvance' # tickAdvance
           /\ tickAdvance' # <<>>
           /\ tickAdvance'[2] # "ok") => pc' = "error"
       /\ pc = "error" => UNCHANGED <<loopLocal, current, paused, volume,
                                      sink>>]_vars

\* play_file failed under the first of two PlayFile Commands of a batch:
\* the loop has ended with the second still in its batch
C33_Witness ==
    /\ pc = "error"
    /\ Len(tickApplied) = 1
    /\ tickApplied[1][1] = "PlayFile"
    /\ tickApplied[1][2] # "ok"
    /\ Len(commands) = 1
    /\ NextCommand(commands).cmd.type = "PlayFile"
    /\ tickAdvance = <<>>

\* C34.  While the loop runs and a NowPlaying exists, the paused flag of the
\* Session State is set exactly when the controller's sink is paused.
C34_PausedFlagFollowsSink ==
    (current # <<>> /\ pc # "error") => (paused <=> sink.paused)

\* a play-selected failed on a missing file while a Song played: the flag
\* was flipped and the sink paused
C34_Witness ==
    /\ tickKey = <<"space:play", "no_file">>
    /\ current # <<>>
    /\ paused
    /\ sink.paused

\* the thread is at a lock() of the mutex
Requests(t, l) ==
    /\ threads[t].script # <<>>
    /\ Head(threads[t].script) = <<"lock", l>>

\* C35.  No thread is at the lock() of the library while it holds the
\* Session State lock, and whenever a thread is inside a lock section some
\* thread inside one is not waiting for a lock.
C35_LibraryBeforeState ==
    /\ \A t \in Threads :
           Requests(t, "library") => "state" \notin threads[t].held
    /\ (\E t \in Threads : threads[t].script # <<>>)
           => \E t \in Threads :
                  /\ threads[t].script # <<>>
                  /\ \A l \in Locks :
                         Requests(t, l) =>
                             \A o \in Threads : l \notin threads[o].held

\* play_url holds the library lock and waits for the Session State lock,
\* which a retrieval holds, while the loop waits for the library lock
C35_Witness ==
    /\ threads["agent"].held = {"library"}
    /\ Requests("agent", "state")
    /\ threads["task"].held = {"state"}
    /\ Requests("loop", "library")

\* C36.  Whenever every request that was submitted has finished, with its
\* error handler when it failed, agent_status is Idle.
C36_IdleWhenNoRequest ==
    (\A r \in RequestIds : requests[r].pc \in {"none", "done_ok", "done_err"})
        => agent_status = "Idle"

\* two requests ran side by side: one completed its tool calls, the other
\* failed and its error handler ran
C36_Witness ==
    /\ requests[1].pc = "done_err"
    /\ requests[2].pc = "done_ok"
    /\ requests[1].left > 0
    /\ status_message = "Agent error"
    /\ agent_status = "Idle"

\* the panel entries that carry the url
WithUrl(panel, url) == {i \in 1..Len(panel) : panel[i].url = url}

\* the step is the panel section of the successful retrieval t
Persists(t) ==
    /\ t.pc = "panel"
    /\ CopiesIn(t, tasks') < CopiesIn(t, tasks)

\* C37.  The panel section of a successful retrieval leaves exactly one Song
\* with the retrieval's url in the library panel: a Ready Song is appended
\* when none was there, else the panel stays as it was.  No step removes or
\* moves a Song of the panel, and no two Songs of the panel carry the same
\* url.
C37_OneTrackPerUrl ==
    [][/\ \A t \in BagToSet(tasks) :
              Persists(t) =>
                  /\ Cardinality(WithUrl(library', t.url)) = 1
                  /\ IF WithUrl(library, t.url) = {}
                     THEN /\ Len(library') = Len(library) + 1
                          /\ library'[Len(library')].url = t.url
                          /\ library'[Len(library')].status = "Ready"
                     ELSE library' = library
       /\ Len(library') >= Len(library)
       /\ SubSeq(library', 1, Len(library)) = library
       /\ \A i, j \in 1..Len(library') :
              library'[i].url = library'[j].url => i = j]_vars

\* a retrieval succeeded after its queue entry was gone, and the panel
\* holds its Song once
C37_Witness ==
    /\ tasks = EmptyBag
    /\ ~failed
    /\ orphaned
    /\ created = 2
    /\ Len(lib) = 1
    /\ Len(library) = 1
    /\ library[1].url = lib[1].url
    /\ library[1].status = "Ready"

\* C38.  The first analysis of an analyzer over a full window, the one that
\* finds the bass history empty, flags no beat and leaves the cooldown
\* clock as it was: the history then holds the current value alone.
C38_FirstAnalysisNoBeat ==
    [][(/\ AnalysisStep
        /\ audio.analyzer
        /\ Len(audio.buffer) >= FftSize
        /\ audio.bass_history = <<>>)
       => /\ ~audio'.features.is_beat
          /\ audio'.bass_history = <<audio'.features.bass>>
          /\ audio'.last_beat = audio.last_beat]_vars

\* the first full analysis of an analyzer met the loudest bass, above the
\* floor and with the cooldown long over, and flagged no beat
C38_Witness ==
    /\ audio.analyzer
    /\ audio.last_op = "analyze"
    /\ Len(audio.buffer) >= FftSize
    /\ audio.bass_history = <<80>>
    /\ audio.features.bass = 80
    /\ ~audio.features.is_beat
    /\ now - audio.last_beat > BeatCooldown

====
